---- MODULE Spec2Model ----
(***************************************************************************)
(* Model of vscode-jupyter-launcher: the in-memory server registry, the    *)
(* persisted list (workspace memento), restart-time reconciliation against *)
(* the live terminal inventory, and the launch-option wizard.              *)
(*                                                                         *)
(* The source tree holds three revisions of jupyterIntegration:            *)
(*   "collection"      src/src/jupyterIntegration.ts lines 1-195           *)
(*   "uriProvider"     src/src/jupyterIntegration.ts lines 197-439         *)
(*   "serverProvider"  src/unnamed/part_000                                *)
(* The variable revision says which one runs; it never changes.            *)
(*                                                                         *)
(* Asynchronous functions are split at their awaits: every action is the   *)
(* synchronous stretch of code between two suspension points.              *)
(***************************************************************************)
EXTENDS Integers, Sequences, FiniteSets, TLC

\* ------------------------------------------------------------------ bounds
MaxPid == 1
MaxTerminals == 2
MaxRuns == 1

\* `!pid`: a terminal whose process id is undefined
NoPid == 0
\* a disposal that terminates no terminal
NoTerminal == 0

Pids == 1..MaxPid
Revisions == {"collection", "uriProvider", "serverProvider"}
JupyterType == {"Jupyter Notebook", "Jupyter Lab"}
NoDir == "undefined"
\* what the model's launches draw: the command's type, the port the probe
\* answers, the token and the mapped directory of the launch parameters
LaunchInputs ==
    {[type |-> "Jupyter Notebook", port |-> 8888, token |-> "t1",
      mapped |-> NoDir],
     [type |-> "Jupyter Lab", port |-> 8889, token |-> "t2",
      mapped |-> "/ws"]}

\* a window.terminals element: [tid, pid, name]
\* `${options.type ?? "Jupyter Notebook"} at ${port}`
TerminalName(type, port) == <<type, port>>
OtherName == <<"bash", 0>>
\* t.name.startsWith("Jupyter Notebook at") || t.name.startsWith("Jupyter Lab at")
IsLauncherName(name) == name[1] = "Jupyter Notebook" \/ name[1] = "Jupyter Lab"

VARIABLES
    revision,     \* which revision of jupyterIntegration runs
    terminals,    \* window.terminals: set of [tid, pid, launcher]
    nextTid,      \* terminals created so far + 1
    launching,    \* launchJupyter calls between createTerminal and return
    closing,      \* open terminals whose dispose() was requested
    restores,     \* restoreJupyterServers calls awaiting Promise.all
    servers,      \* the module-level Map: pid -> entry
    memento,      \* memento.get("jupyterServers"): sequence of records
    handles,      \* collection.createServer handles not yet disposed, per id
    apiMapping,   \* serverToApiMapping of the serverProvider revision
    last          \* what the last step did (history, read by the properties)

vars == <<revision, terminals, nextTid, launching, closing, restores,
          servers, memento, handles, apiMapping, last>>

\* one launchJupyter call, step by step, and what its entry point reports
VARIABLES
    pc,           \* where the call is: its awaits and its catch block
    entry,        \* who called: the extension command or a provider item
    pythonExt,    \* extensions.getExtension("ms-python.python")?.exports
    cancelled,    \* options.token.isCancellationRequested
    launchPort,   \* `port`: what getPortPromise resolved to
    listening,    \* the ports bound by the servers started so far
    probes,       \* calls of getPortPromise made by this launch
    logged,       \* "[Error]" lines appended to the output channel by it
    shown,        \* error messages shown to the user by it
    raised,       \* the entry point itself ended with an error
    failure,      \* why the launch failed, if it did
    outcome       \* what launchJupyter gave its caller
launchVars == <<pc, entry, pythonExt, cancelled, launchPort, listening, probes,
                logged, shown, raised, failure, outcome>>

\* getLaunchArgs: its options, its locals and the quick pick it shows
VARIABLES
    options,                          \* customize, canGoBack, displayOptionToIntegrateWithJupyter
    phase,                            \* where getLaunchArgs is
    prompt,                           \* the item whose sub-prompt is open
    selectedItems,                    \* quickPick.selectedItems
    previousSelections,
    ignoreNext,
    echo,                             \* a selection was set by the code and the host
                                      \* has not yet said whether it reports it
    token,                            \* value, isRandom, isEmpty
    password,
    customCwd,
    useCustomWorkingDirectory,
    jupyterExtensionWorkingDirectory,
    proceed,                          \* what the promise of Accept and Back
                                      \* resolved to, if it has
    result                            \* what getLaunchArgs returned
wizardVars == <<proceed, options, phase, prompt, selectedItems, previousSelections,
                ignoreNext, echo, token, password, customCwd,
                useCustomWorkingDirectory, jupyterExtensionWorkingDirectory,
                result>>

\* ----------------------------------------------------------------- helpers
EmptyMap == [x \in {} |-> 0]
Put(f, k, v) == [x \in (DOMAIN f) \cup {k} |-> IF x = k THEN v ELSE f[x]]
Del(f, k) == [x \in (DOMAIN f) \ {k} |-> f[x]]

\* `http://localhost:${port}/`
BaseUrl(port) == <<"http://localhost", port>>
\* `${server.type} ${server.baseUrl}`
Label(type, baseUrl) == <<type, baseUrl>>
\* label.startsWith("Jupyter Notebook")
LabelType(label) ==
    IF label[1] = "Jupyter Notebook" THEN "Jupyter Notebook" ELSE "Jupyter Lab"

\* the serverUri object built by addJupyterServer
ServerUri(server) ==
    [pid |-> server.pid,
     baseUrl |-> BaseUrl(server.port),
     token |-> server.token,
     label |-> Label(server.type, BaseUrl(server.port)),
     mapped |-> server.mapped]

NoEvent ==
    [op |-> "none", pid |-> NoPid, hit |-> FALSE, fired |-> 0, warned |-> 0,
     raised |-> FALSE, wrote |-> FALSE, listed |-> {}, secret |-> ""]

LivePids == {t.pid : t \in terminals} \ {NoPid}

\* --------------------------------------------------------- launchJupyter
\* window.createTerminal in launchJupyter: the terminal exists, the launch
\* waits for the warm-up delay and for terminal.processId.
SpawnTerminal(type, port, jpToken, mapped, pid) ==
    /\ nextTid <= MaxTerminals
    /\ pid \notin LivePids
    /\ terminals' = terminals \cup
           {[tid |-> nextTid, pid |-> pid, name |-> TerminalName(type, port)]}
    /\ nextTid' = nextTid + 1
    /\ launching' = launching \cup
           {[tid |-> nextTid, pid |-> pid, type |-> type, port |-> port,
             token |-> jpToken, mapped |-> mapped]}
    /\ last' = NoEvent
    /\ UNCHANGED <<revision, closing, restores, servers, memento, handles,
                   apiMapping>>

\* launchJupyter up to window.createTerminal, whatever its options were
CreateTerminal(type, port, jpToken, mapped, pid) ==
    /\ SpawnTerminal(type, port, jpToken, mapped, pid)
    /\ UNCHANGED <<launchVars, wizardVars>>

\* a terminal the launcher did not create (the user's shell)
OpenOtherTerminal(pid) ==
    /\ nextTid <= MaxTerminals
    /\ pid \notin LivePids
    /\ terminals' = terminals \cup
           {[tid |-> nextTid, pid |-> pid, name |-> OtherName]}
    /\ nextTid' = nextTid + 1
    /\ last' = NoEvent
    /\ UNCHANGED <<launchVars, wizardVars, revision, launching, closing, restores, servers, memento,
                   handles, apiMapping>>

\* terminal.processId is pending while the terminal's shell starts, which is
\* over by the time launchJupyter has read it
Starting(t) == \E s \in launching : s.tid = t.tid

\* A restoreJupyterServers call waits in Promise.all only for pending process
\* ids.  It resumes as soon as the last one settles, which is before the
\* launch that reads the same process id returns to its caller.
Awaited(server) ==
    \E run \in restores : \A t \in run : Starting(t) => t.tid = server.tid

\* ------------------------------------------------- storeJupyterServers
\* a store that writes the new record alone
StoreOnlyNew(list, record) == <<record>>
\* memento.get, push, memento.update: the list with the record appended
StoreJupyterServers(list, record) == Append(list, record)

\* ----------------------------------------------------- addJupyterServer
\* an add that does not look the process id up
NeverStarted(server) == FALSE
\* servers.has(server.pid...)
AlreadyStarted(server) == server.pid \in DOMAIN servers

\* the `details` object put in the Map; its disposal is the launch's terminal
Details(server) ==
    [rec |-> ServerUri(server),
     term |-> server.tid,
     handle |-> (revision = "collection"),
     obj |-> IF revision = "serverProvider" THEN server.tid ELSE NoTerminal]

\* an add that registers the session only once it is stored
RegisteredIfStored(server, ok) ==
    IF ok THEN Put(servers, server.pid, Details(server)) ELSE servers
\* servers.set(...) follows storeJupyterServers(...) without awaiting it
Registered(server, ok) == Put(servers, server.pid, Details(server))

\* change events fired by a non-duplicate add
AddFires == IF revision = "collection" THEN 0 ELSE 1

\* storeJupyterServers(...) is called and not awaited: its rejection reaches
\* no caller of addJupyterServer
AddRaises(ok) == FALSE

\* the `password` property that memento.update writes with the element: the
\* collection revision writes { serverUri, disposables: [] }; the uriProvider
\* revision writes `serverInfo: server` and the serverProvider revision
\* `server`, the object launchJupyter returned with the wizard's password
PersistedPassword(pwd) == IF revision = "collection" THEN "" ELSE pwd

\* addJupyterServer(server); ok: whether memento.update succeeds
AddJupyterServer(server, ok) ==
    IF AlreadyStarted(server)
    THEN /\ UNCHANGED <<servers, memento, handles>>
         /\ last' = [NoEvent EXCEPT !.op = "add", !.pid = server.pid,
                        !.hit = (server.pid \in DOMAIN servers),
                        !.warned = 1]
    ELSE /\ servers' = Registered(server, ok)
         /\ memento' = IF ok
                       THEN StoreJupyterServers(memento, ServerUri(server))
                       ELSE memento
         /\ handles' = IF revision = "collection"
                       THEN [handles EXCEPT ![server.pid] = @ + 1]
                       ELSE handles
         /\ last' = [NoEvent EXCEPT !.op = "add", !.pid = server.pid,
                        !.hit = (server.pid \in DOMAIN servers),
                        !.fired = AddFires, !.wrote = ok,
                        !.raised = AddRaises(ok),
                        !.secret = IF ok
                                   THEN PersistedPassword(result.password)
                                   ELSE ""]

\* launchJupyter returns its server and the entry point registers it:
\* the extension command (extension.ts startJupyterServer), the provider item
\* (startJupyterServer / handleQuickPick).
StartJupyterServer(server, ok) ==
    /\ server \in launching
    /\ ~Awaited(server)
    /\ launching' = launching \ {server}
    /\ AddJupyterServer(server, ok)
    /\ UNCHANGED <<launchVars, wizardVars, revision, terminals, nextTid, closing, restores, apiMapping>>

\* the extension command with "Register with Jupyter Extension" not selected:
\* serverInfo?.registerWithJupyterExtension is false, nothing is added
StartWithoutRegistering(server) ==
    /\ server \in launching
    /\ ~Awaited(server)
    /\ launching' = launching \ {server}
    /\ last' = NoEvent
    /\ UNCHANGED <<launchVars, wizardVars, revision, terminals, nextTid, closing, restores, servers,
                   memento, handles, apiMapping>>

\* the "jupyter.notebookLauncher" command of the serverProvider revision:
\* startJupyterServer, then serverToApiMapping.set(server, apiType)
NotebookLauncherCommand(server, ok) ==
    /\ revision = "serverProvider"
    /\ server \in launching
    /\ ~Awaited(server)
    /\ launching' = launching \ {server}
    /\ AddJupyterServer(server, ok)
    /\ apiMapping' = {m \in apiMapping : m.obj # server.tid} \cup
                     {[obj |-> server.tid, id |-> server.pid]}
    /\ UNCHANGED <<launchVars, wizardVars, revision, terminals, nextTid, closing, restores>>

\* ------------------------------------------------ shutdownJupyterServer
\* terminal.dispose() of the terminal with this id: a request to the host; the
\* terminal stays in window.terminals until the host reports it closed
Disposed(tid) == {u \in terminals : u.tid = tid}

\* change events fired by shutdownJupyterServer when it removes an entry
ShutdownFires == IF revision = "uriProvider" THEN 1 ELSE 0

\* the entry shutdownJupyterServer finds for the terminal: servers.get(pid)
ShutdownFinds(t) == t.pid # NoPid /\ t.pid \in DOMAIN servers

\* The terminal leaves window.terminals (closed by the user, its process
\* exited, or a requested dispose went through) and onDidCloseTerminal runs
\* shutdownJupyterServer(t).  The processId of a terminal that was running is
\* a settled promise, so the await in shutdownJupyterServer resumes before any
\* other event is handled: the handler is one step.
ShutdownJupyterServer(t) ==
    /\ t \in terminals
    /\ terminals' = terminals \ {t}
    /\ IF ShutdownFinds(t)
       THEN /\ closing' = (closing \cup Disposed(servers[t.pid].term)) \ {t}
            /\ handles' = IF servers[t.pid].handle
                          THEN [handles EXCEPT ![t.pid] = @ - 1]
                          ELSE handles
            /\ servers' = Del(servers, t.pid)
            /\ last' = [NoEvent EXCEPT !.op = "shutdown", !.pid = t.pid,
                           !.hit = TRUE, !.fired = ShutdownFires]
       ELSE /\ closing' = closing \ {t}
            /\ last' = [NoEvent EXCEPT !.op = "shutdown", !.pid = t.pid,
                           !.hit = (t.pid \in DOMAIN servers)]
            /\ UNCHANGED <<servers, handles>>
    /\ UNCHANGED <<launchVars, wizardVars, revision, nextTid, launching, restores, memento, apiMapping>>

\* change events fired by removeHandle
RemoveHandleFires(present) == 1

\* removeHandle(handle) of the uriProvider revision
RemoveHandle(h) ==
    /\ revision = "uriProvider"
    /\ closing' = IF h \in DOMAIN servers
                  THEN closing \cup Disposed(servers[h].term)
                  ELSE closing
    /\ servers' = Del(servers, h)
    /\ last' = [NoEvent EXCEPT !.op = "removeHandle", !.pid = h,
                   !.hit = (h \in DOMAIN servers),
                   !.fired = RemoveHandleFires(h \in DOMAIN servers)]
    /\ UNCHANGED <<launchVars, wizardVars, revision, terminals, nextTid, launching, restores, memento,
                   handles, apiMapping>>

\* ------------------------------------------------ restoreJupyterServers
\* the terminals whose name passes the filter; each then awaits its processId
Snapshot == {t \in terminals : IsLauncherName(t.name)}

\* terminalsByPid once Promise.all has resolved: pid -> terminal id
TerminalsByPid(run) ==
    [p \in {t.pid : t \in run} \ {NoPid} |->
        (CHOOSE t \in run : t.pid = p).tid]

\* restoreJupyterServers up to `await Promise.all(...)`, when a process id of
\* the snapshot is pending
StartRestore ==
    /\ \E t \in Snapshot : Starting(t)
    /\ Cardinality(restores \cup {Snapshot}) <= MaxRuns
    /\ restores' = restores \cup {Snapshot}
    /\ last' = NoEvent
    /\ UNCHANGED <<launchVars, wizardVars, revision, terminals, nextTid, launching, closing, servers,
                   memento, handles, apiMapping>>

\* a forEach that creates the server without the servers.has check
RestoreCollectionUnchecked(acc, server, byPid) ==
    IF server.pid \notin DOMAIN byPid THEN acc
    ELSE [servers |-> Put(acc.servers, server.pid,
                          [rec |-> server, term |-> byPid[server.pid],
                           handle |-> TRUE, obj |-> NoTerminal]),
          handles |-> [acc.handles EXCEPT ![server.pid] = @ + 1]]
\* one iteration of the forEach, collection revision
RestoreCollection(acc, server, byPid) ==
    IF server.pid \in DOMAIN acc.servers THEN acc
    ELSE IF server.pid \notin DOMAIN byPid THEN acc
    ELSE [servers |-> Put(acc.servers, server.pid,
                          [rec |-> server, term |-> byPid[server.pid],
                           handle |-> TRUE, obj |-> NoTerminal]),
          handles |-> [acc.handles EXCEPT ![server.pid] = @ + 1]]

\* one iteration of the forEach, uriProvider revision
RestoreUriProvider(acc, server, byPid) ==
    IF server.pid \notin DOMAIN byPid /\ server.pid \notin DOMAIN acc.servers
    THEN acc
    ELSE [servers |-> Put(acc.servers, server.pid,
                          [rec |-> server,
                           term |-> IF server.pid \in DOMAIN byPid
                                    THEN byPid[server.pid] ELSE NoTerminal,
                           handle |-> FALSE, obj |-> NoTerminal]),
          handles |-> acc.handles]

\* one iteration of the forEach, serverProvider revision
RestoreServerProvider(acc, server, byPid) ==
    IF server.pid \in DOMAIN acc.servers THEN acc
    ELSE IF server.pid \notin DOMAIN byPid THEN acc
    ELSE [servers |-> Put(acc.servers, server.pid,
                          [rec |-> server, term |-> byPid[server.pid],
                           handle |-> FALSE, obj |-> NoTerminal]),
          handles |-> acc.handles]

RestoreOne(acc, server, byPid) ==
    CASE revision = "collection" -> RestoreCollection(acc, server, byPid)
      [] revision = "uriProvider" -> RestoreUriProvider(acc, server, byPid)
      [] OTHER -> RestoreServerProvider(acc, server, byPid)

\* memento.get("jupyterServers", []).forEach(...), from element i on
RECURSIVE RestoreFrom(_, _, _, _)
RestoreFrom(i, list, byPid, acc) ==
    IF i > Len(list) THEN acc
    ELSE RestoreFrom(i + 1, list, byPid, RestoreOne(acc, list[i], byPid))

\* change events fired at the end of restoreJupyterServers
RestoreFires == IF revision = "serverProvider" THEN 1 ELSE 0

\* the Map and the handles after the forEach over the persisted list
Restored(run) ==
    RestoreFrom(1, memento, TerminalsByPid(run),
                [servers |-> servers, handles |-> handles])

\* restoreJupyterServers after the await
FinishRestore(run) ==
    /\ run \in restores
    /\ restores' = restores \ {run}
    /\ servers' = Restored(run).servers
    /\ handles' = Restored(run).handles
    /\ last' = [NoEvent EXCEPT !.op = "restore", !.fired = RestoreFires]
    /\ UNCHANGED <<launchVars, wizardVars, revision, terminals, nextTid, launching, closing, memento,
                   apiMapping>>

\* restoreJupyterServers from call to return, when every process id of the
\* snapshot is settled: Promise.all resolves before another event is handled
RestoreJupyterServers ==
    /\ \A t \in Snapshot : ~Starting(t)
    /\ servers' = Restored(Snapshot).servers
    /\ handles' = Restored(Snapshot).handles
    /\ last' = [NoEvent EXCEPT !.op = "restore", !.fired = RestoreFires]
    /\ UNCHANGED <<launchVars, wizardVars, revision, terminals, nextTid, launching, closing, restores,
                   memento, apiMapping>>

\* ----------------------------------------------------------- list queries
\* getHandles of the uriProvider revision
GetHandles ==
    /\ revision = "uriProvider"
    /\ last' = [NoEvent EXCEPT !.op = "list", !.listed = DOMAIN servers]
    /\ UNCHANGED <<launchVars, wizardVars, revision, terminals, nextTid, launching, closing, restores,
                   servers, memento, handles, apiMapping>>

\* serverToApiMapping after the servers.forEach of getJupyterServers
Mapped(mapping) ==
    mapping \cup
    {[obj |-> servers[p].obj, id |-> p] :
        p \in (DOMAIN servers) \ {m.id : m \in mapping}}

\* getJupyterServers of the serverProvider revision
GetJupyterServers ==
    /\ revision = "serverProvider"
    /\ apiMapping' = Mapped(apiMapping)
    /\ last' = [NoEvent EXCEPT !.op = "list",
                   !.listed = {m.id : m \in Mapped(apiMapping)}]
    /\ UNCHANGED <<launchVars, wizardVars, revision, terminals, nextTid, launching, closing, restores,
                   servers, memento, handles>>

\* ---------------------------------------------------------------- restart
\* The client restarts: module state is gone, the memento and the terminals
\* stay.  activate() calls restoreJupyterServers; the terminals it finds were
\* started in the earlier session, their process ids are settled.
Activate ==
    /\ launching' = {}
    /\ closing' = {}
    /\ restores' = {}
    /\ apiMapping' = {}
    /\ LET res == RestoreFrom(1, memento, TerminalsByPid(Snapshot),
                              [servers |-> EmptyMap,
                               handles |-> [p \in Pids |-> 0]])
       IN /\ servers' = res.servers
          /\ handles' = res.handles
    /\ last' = [NoEvent EXCEPT !.op = "activate", !.fired = RestoreFires]
    /\ UNCHANGED <<launchVars, wizardVars, revision, terminals, nextTid, memento>>

\* ------------------------------------------------------------ getLaunchArgs
passwordEnabled == "Password"
randomToken == "Random Token"
emptyToken == "Empty Token"
specificToken == "Specific Token"
corsEnabled == "Allow access from other WebSites (bypass CORS)"
openInBrowser == "Open in browser"
cwdPrompt == "Custom Working Directory"
localPathMapping == "Map local dir to remote notebook dir"
registerWithJupyterExtensionPrompt == "Register with Jupyter Extension"

\* workspaceFolder ?? tmpDir
cwd == "/ws"
\* what a dismissed input box resolves to
Cancelled == "undefined"
\* Date.now().toString()
Clock == "clock"
\* getPorts.getPortPromise(...) as port.toString() renders it
Port == "8888"
\* genRandomString(16)
Salts == {"a1", "b2"}
\* `sha1:${salt}:${hash.digest("hex")}`
generateHashedPassword(pwd, salt) ==
    CASE pwd = "pw" /\ salt = "a1" -> "sha1:a1:digest(pw,a1)"
      [] pwd = "pw" /\ salt = "b2" -> "sha1:b2:digest(pw,b2)"
      [] OTHER -> "sha1:salt:digest"
\* what the user can type or pick in the sub-prompts
TokenInputs == {Cancelled, " ", "secret", " secret "}
PasswordInputs == {Cancelled, " ", "pw"}
FolderInputs == {NoDir, "/custom"}

\* String.prototype.trim, on the inputs above
Trim(value) ==
    IF value = " " THEN "" ELSE IF value = " secret " THEN "secret" ELSE value
\* a capture that does not trim
captureTokenUntrimmed(jpToken) == IF jpToken = Cancelled THEN "" ELSE jpToken
\* (jpToken || "").trim()
captureToken(jpToken) == IF jpToken = Cancelled THEN "" ELSE Trim(jpToken)

\* the items array: randomToken is not in it
Items(opts) ==
    {passwordEnabled, emptyToken, specificToken, corsEnabled, openInBrowser,
     cwdPrompt, localPathMapping}
        \cup (IF opts.displayOptionToIntegrateWithJupyter
              THEN {registerWithJupyterExtensionPrompt} ELSE {})
\* the items whose picked property is true
Picked(opts) ==
    {randomToken, corsEnabled, registerWithJupyterExtensionPrompt}
        \cup (IF opts.displayOptionToIntegrateWithJupyter
              THEN {openInBrowser} ELSE {})
\* the host keeps of an assigned selection the items the list has
Shown(selection) == selection \cap Items(options)

NoToken == [value |-> "", isRandom |-> TRUE, isEmpty |-> FALSE]
NoResult ==
    [kind |-> "none", shellArgs |-> <<>>, token |-> "", port |-> "",
     password |-> "", registerWithJupyterExtension |-> FALSE, cwd |-> NoDir,
     jupyterExtensionWorkingDirectory |-> NoDir]
\* `return;`
UndefinedResult == [NoResult EXCEPT !.kind = "undefined"]
\* throw new Error("Token cannot be empty")
InvalidToken == [NoResult EXCEPT !.kind = "error"]

\* the wizard before getLaunchArgs is called
WizardIdle ==
    /\ options = [type |-> "Jupyter Notebook", customize |-> FALSE,
                  canGoBack |-> FALSE,
                  displayOptionToIntegrateWithJupyter |-> FALSE]
    /\ phase = "idle"
    /\ prompt = "none"
    /\ selectedItems = {}
    /\ previousSelections = {}
    /\ ignoreNext = FALSE
    /\ echo = FALSE
    /\ token = NoToken
    /\ password = ""
    /\ customCwd = NoDir
    /\ useCustomWorkingDirectory = FALSE
    /\ jupyterExtensionWorkingDirectory = cwd
    /\ proceed = "pending"
    /\ result = NoResult

\* the locals of getLaunchArgs and the quick pick as it is first shown
GetLaunchArgs(opts) ==
    /\ options = opts
    /\ phase = IF opts.customize THEN "list" ELSE "build"
    /\ prompt = "none"
    /\ selectedItems = IF opts.customize THEN Items(opts) \cap Picked(opts) ELSE {}
    /\ previousSelections = selectedItems
    /\ ignoreNext = FALSE
    /\ echo = FALSE
    /\ token = NoToken
    /\ password = ""
    /\ customCwd = NoDir
    /\ useCustomWorkingDirectory = FALSE
    /\ jupyterExtensionWorkingDirectory = cwd
    /\ proceed = "pending"
    /\ result = NoResult

\* the branch the token takes when the launch is built
TokenMode(tok) ==
    IF tok.isRandom THEN "Random" ELSE IF tok.isEmpty THEN "Empty" ELSE "Specific"
\* the token of the launch: clock-derived, empty or the captured value
TokenValue(tok) ==
    IF tok.isRandom THEN Clock ELSE IF tok.isEmpty THEN "" ELSE tok.value
\* shellArgs with the port pushed before the working directory
ShellArgsPortEarly(tok, pwd, browser, allowOrigin, salts) ==
    <<"-m", "jupyter",
      IF options.type = "Jupyter Lab" THEN "lab" ELSE "notebook">>
    \o (IF ~browser THEN <<"--no-browser">> ELSE <<>>)
    \o (IF allowOrigin
        THEN <<"--NotebookApp.allow_origin", "*",
               "--ServerApp.allow_origin", "*">>
        ELSE <<>>)
    \o <<"--NotebookApp.token", Trim(TokenValue(tok)),
          "--ServerApp.token", Trim(TokenValue(tok))>>
    \o (IF Trim(pwd) # ""
        THEN <<"--NotebookApp.password", generateHashedPassword(pwd, salts[1]),
               "--ServerApp.password", generateHashedPassword(pwd, salts[2])>>
        ELSE <<"--NotebookApp.password", "", "--ServerApp.password", "">>)
    \o <<"--port", Port>>
    \o (IF customCwd # NoDir /\ useCustomWorkingDirectory
        THEN <<"--notebook-dir", customCwd>>
        ELSE <<"--notebook-dir", cwd>>)
\* shellArgs as getLaunchArgs pushes them
ShellArgs(tok, pwd, browser, allowOrigin, salts) ==
    <<"-m", "jupyter",
      IF options.type = "Jupyter Lab" THEN "lab" ELSE "notebook">>
    \o (IF ~browser THEN <<"--no-browser">> ELSE <<>>)
    \o (IF allowOrigin
        THEN <<"--NotebookApp.allow_origin", "*",
               "--ServerApp.allow_origin", "*">>
        ELSE <<>>)
    \o <<"--NotebookApp.token", Trim(TokenValue(tok)),
          "--ServerApp.token", Trim(TokenValue(tok))>>
    \o (IF Trim(pwd) # ""
        THEN <<"--NotebookApp.password", generateHashedPassword(pwd, salts[1]),
               "--ServerApp.password", generateHashedPassword(pwd, salts[2])>>
        ELSE <<"--NotebookApp.password", "", "--ServerApp.password", "">>)
    \o (IF customCwd # NoDir /\ useCustomWorkingDirectory
        THEN <<"--notebook-dir", customCwd>>
        ELSE <<"--notebook-dir", cwd>>)
    \o <<"--port", Port>>

\* a build that does not look at the token value
LaunchArgsUnchecked(tok, pwd, browser, allowOrigin, register, mapped, salts) ==
    [kind |-> "config",
     shellArgs |-> ShellArgs(tok, pwd, browser, allowOrigin, salts),
     token |-> TokenValue(tok),
     port |-> Port,
     password |-> pwd,
     registerWithJupyterExtension |-> register,
     cwd |-> cwd,
     jupyterExtensionWorkingDirectory |-> mapped]
\* the part of getLaunchArgs that follows the wizard
LaunchArgs(tok, pwd, browser, allowOrigin, register, mapped, salts) ==
    IF ~tok.isRandom /\ ~tok.isEmpty /\ Trim(tok.value) = ""
    THEN InvalidToken
    ELSE [kind |-> "config",
          shellArgs |-> ShellArgs(tok, pwd, browser, allowOrigin, salts),
          token |-> TokenValue(tok),
          port |-> Port,
          password |-> pwd,
          registerWithJupyterExtension |-> register,
          cwd |-> cwd,
          jupyterExtensionWorkingDirectory |-> mapped]

\* displayQuickPick
DisplayQuickPick ==
    /\ selectedItems' = Shown(previousSelections')
    /\ echo' = TRUE
    /\ phase' = "list"
    /\ prompt' = "none"

\* the item is in the event and was not in previousSelections
Newly(item, e) == item \in e /\ item \notin previousSelections

\* a branch that awaits a sub-prompt, up to the await
OpenPrompt(item, e) ==
    /\ ignoreNext' = TRUE
    /\ phase' = "prompt"
    /\ prompt' = item
    /\ selectedItems' = e
    /\ UNCHANGED <<previousSelections, echo, token, password, customCwd,
                   useCustomWorkingDirectory, jupyterExtensionWorkingDirectory>>

\* the onDidChangeSelection handler, up to its first await
OnDidChangeSelection(e) ==
    IF ignoreNext
    THEN /\ previousSelections' = e
         /\ ignoreNext' = FALSE
         /\ selectedItems' = e
         /\ echo' = FALSE
         /\ UNCHANGED <<phase, prompt, token, password, customCwd,
                        useCustomWorkingDirectory,
                        jupyterExtensionWorkingDirectory>>
    ELSE IF Newly(passwordEnabled, e) THEN OpenPrompt(passwordEnabled, e)
    ELSE IF Newly(emptyToken, e)
    THEN /\ token' = [token EXCEPT !.isRandom = FALSE, !.isEmpty = TRUE]
         /\ ignoreNext' = TRUE
         /\ previousSelections' =
                (previousSelections \ {randomToken, specificToken})
                    \cup {emptyToken}
         /\ DisplayQuickPick
         /\ UNCHANGED <<password, customCwd, useCustomWorkingDirectory,
                        jupyterExtensionWorkingDirectory>>
    ELSE IF Newly(specificToken, e) THEN OpenPrompt(specificToken, e)
    ELSE IF Newly(cwdPrompt, e) THEN OpenPrompt(cwdPrompt, e)
    ELSE IF Newly(localPathMapping, e) THEN OpenPrompt(localPathMapping, e)
    ELSE IF cwdPrompt \notin e /\ cwdPrompt \in previousSelections
    THEN /\ ignoreNext' = TRUE
         /\ useCustomWorkingDirectory' = TRUE
         /\ previousSelections' = e
         /\ DisplayQuickPick
         /\ UNCHANGED <<token, password, customCwd,
                        jupyterExtensionWorkingDirectory>>
    ELSE IF emptyToken \notin e /\ randomToken \notin e
    THEN /\ ignoreNext' = TRUE
         /\ selectedItems' =
                Shown((e \ {emptyToken, randomToken}) \cup {randomToken})
         /\ echo' = TRUE
         /\ previousSelections' = selectedItems'
         /\ UNCHANGED <<phase, prompt, token, password, customCwd,
                        useCustomWorkingDirectory,
                        jupyterExtensionWorkingDirectory>>
    ELSE /\ previousSelections' = e
         /\ selectedItems' = e
         /\ UNCHANGED <<phase, prompt, ignoreNext, echo, token, password,
                        customCwd, useCustomWorkingDirectory,
                        jupyterExtensionWorkingDirectory>>

\* the user checks or unchecks one item of the list
ToggleItem(item) ==
    /\ phase = "list" /\ ~echo
    /\ item \in Items(options)
    /\ OnDidChangeSelection(IF item \in selectedItems
                            THEN selectedItems \ {item}
                            ELSE selectedItems \cup {item})
    /\ UNCHANGED <<proceed, options, result>>
    /\ UNCHANGED <<vars, launchVars>>

\* the host reports the selection the code has just assigned
ReportAssignedSelection ==
    /\ phase = "list" /\ echo
    /\ OnDidChangeSelection(selectedItems)
    /\ UNCHANGED <<proceed, options, result>>
    /\ UNCHANGED <<vars, launchVars>>

\* the host reports nothing for a selection the code assigned
KeepAssignedSelectionSilent ==
    /\ phase = "list" /\ echo
    /\ echo' = FALSE
    /\ UNCHANGED <<proceed, options, phase, prompt, selectedItems, previousSelections,
                   ignoreNext, token, password, customCwd,
                   useCustomWorkingDirectory, jupyterExtensionWorkingDirectory,
                   result>>
    /\ UNCHANGED <<vars, launchVars>>

\* capturePassword resolves: the rest of the Password branch
PasswordCaptured(selectedPassword) ==
    /\ phase = "prompt" /\ prompt = passwordEnabled
    /\ IF selectedPassword # Cancelled
       THEN /\ password' = selectedPassword
            /\ previousSelections' = previousSelections \cup {passwordEnabled}
       ELSE /\ password' = password
            /\ previousSelections' = previousSelections \ {passwordEnabled}
    /\ DisplayQuickPick
    /\ UNCHANGED <<proceed, options, ignoreNext, token, customCwd,
                   useCustomWorkingDirectory, jupyterExtensionWorkingDirectory,
                   result>>
    /\ UNCHANGED <<vars, launchVars>>

\* captureToken resolves: the rest of the Specific Token branch
TokenCaptured(jpToken) ==
    /\ phase = "prompt" /\ prompt = specificToken
    /\ IF captureToken(jpToken) # ""
       THEN /\ token' = [value |-> captureToken(jpToken),
                         isRandom |-> FALSE, isEmpty |-> FALSE]
            /\ previousSelections' =
                   (previousSelections \ {emptyToken, randomToken})
                       \cup {specificToken}
       ELSE /\ token' = [token EXCEPT !.isRandom = TRUE, !.isEmpty = FALSE]
            /\ previousSelections' =
                   (previousSelections \ {emptyToken, specificToken})
                       \cup {randomToken}
    /\ DisplayQuickPick
    /\ UNCHANGED <<proceed, options, ignoreNext, password, customCwd,
                   useCustomWorkingDirectory, jupyterExtensionWorkingDirectory,
                   result>>
    /\ UNCHANGED <<vars, launchVars>>

\* captureCwd resolves: the rest of the Custom Working Directory branch
CwdCaptured(capturedCwd) ==
    /\ phase = "prompt" /\ prompt = cwdPrompt
    /\ IF capturedCwd # NoDir
       THEN /\ customCwd' = capturedCwd
            /\ previousSelections' = previousSelections \cup {cwdPrompt}
       ELSE /\ customCwd' = customCwd
            /\ previousSelections' = previousSelections \ {cwdPrompt}
    /\ useCustomWorkingDirectory' = TRUE
    /\ DisplayQuickPick
    /\ UNCHANGED <<proceed, options, ignoreNext, token, password,
                   jupyterExtensionWorkingDirectory, result>>
    /\ UNCHANGED <<vars, launchVars>>

\* captureCwd resolves: the rest of the Map local dir branch
MappedFolderCaptured(mappedFolder) ==
    /\ phase = "prompt" /\ prompt = localPathMapping
    /\ IF mappedFolder # NoDir
       THEN /\ jupyterExtensionWorkingDirectory' = mappedFolder
            /\ previousSelections' = previousSelections \cup {localPathMapping}
       ELSE /\ jupyterExtensionWorkingDirectory' = cwd
            /\ previousSelections' = previousSelections \ {localPathMapping}
    /\ DisplayQuickPick
    /\ UNCHANGED <<proceed, options, ignoreNext, token, password, customCwd,
                   useCustomWorkingDirectory, result>>
    /\ UNCHANGED <<vars, launchVars>>

\* what getLaunchArgs returns once the list is accepted
Accepted(selections, salts) ==
    IF selections = {} \/ selections \cap Picked(options) = {}
    THEN UndefinedResult
    ELSE LaunchArgs(token,
                    IF passwordEnabled \in selections THEN password ELSE "",
                    openInBrowser \in selections,
                    corsEnabled \in selections,
                    registerWithJupyterExtensionPrompt \in selections,
                    IF localPathMapping \in selections
                    THEN jupyterExtensionWorkingDirectory ELSE NoDir,
                    salts)

\* onDidAccept: resolve(true), and getLaunchArgs runs to its return
Accept ==
    /\ phase = "list"
    /\ phase' = "done"
    /\ \E salts \in Salts \X Salts : result' = Accepted(selectedItems, salts)
    /\ proceed' = "true"
    /\ UNCHANGED <<options, prompt, selectedItems, previousSelections,
                   ignoreNext, echo, token, password, customCwd,
                   useCustomWorkingDirectory, jupyterExtensionWorkingDirectory>>
    /\ UNCHANGED <<vars, launchVars>>

\* Back without the return of line 397: the selection is built all the same
BackBuilds ==
    /\ phase = "list" /\ options.canGoBack
    /\ phase' = "done"
    /\ \E salts \in Salts \X Salts : result' = Accepted(selectedItems, salts)
    /\ proceed' = "false"
    /\ UNCHANGED <<options, prompt, selectedItems, previousSelections,
                   ignoreNext, echo, token, password, customCwd,
                   useCustomWorkingDirectory, jupyterExtensionWorkingDirectory>>
    /\ UNCHANGED <<vars, launchVars>>

\* onDidTriggerButton(Back): resolve(false)
Back ==
    /\ phase = "list" /\ options.canGoBack
    /\ phase' = "done"
    /\ result' = UndefinedResult
    /\ proceed' = "false"
    /\ UNCHANGED <<options, prompt, selectedItems, previousSelections,
                   ignoreNext, echo, token, password, customCwd,
                   useCustomWorkingDirectory, jupyterExtensionWorkingDirectory>>
    /\ UNCHANGED <<vars, launchVars>>

\* the user dismisses the list: no handler resolves the promise
Dismiss ==
    /\ phase = "list"
    /\ phase' = "hidden"
    /\ UNCHANGED <<proceed, options, prompt, selectedItems, previousSelections,
                   ignoreNext, echo, token, password, customCwd,
                   useCustomWorkingDirectory, jupyterExtensionWorkingDirectory,
                   result>>
    /\ UNCHANGED <<vars, launchVars>>

\* getLaunchArgs without customize: the defaults
LaunchWithDefaults ==
    /\ phase = "build"
    /\ phase' = "done"
    /\ \E salts \in Salts \X Salts :
          result' = LaunchArgs(token, password, FALSE, TRUE, TRUE,
                               jupyterExtensionWorkingDirectory, salts)
    /\ UNCHANGED <<proceed, options, prompt, selectedItems, previousSelections,
                   ignoreNext, echo, token, password, customCwd,
                   useCustomWorkingDirectory, jupyterExtensionWorkingDirectory>>
    /\ UNCHANGED <<vars, launchVars>>

\* ------------------------------------------- launchJupyter and its callers
\* the caller is the extension command, the only one that sets
\* displayOptionToIntegrateWithJupyter
FromCommand == options.displayOptionToIntegrateWithJupyter
\* the caller registers the returned server: the command when
\* registerWithJupyterExtension is set, the provider item always
\* a caller that registers whatever was selected
RegistersAlways == TRUE
Registers == IF FromCommand THEN result.registerWithJupyterExtension ELSE TRUE
\* the locals of getLaunchArgs and its options stay as they are
WizardKept ==
    UNCHANGED <<launchVars, proceed, options, prompt, selectedItems, previousSelections, ignoreNext,
                echo, token, password, customCwd, useCustomWorkingDirectory,
                jupyterExtensionWorkingDirectory, result>>

\* `if (!launchInfo) return;`: launchJupyter returns no server
LaunchReturnsNothing ==
    /\ phase = "done" /\ result.kind = "undefined"
    /\ phase' = "returned"
    /\ WizardKept
    /\ UNCHANGED vars

\* getLaunchArgs threw: launchJupyter rejects before withProgress
LaunchFails ==
    /\ phase = "done" /\ result.kind = "error"
    /\ phase' = "failed"
    /\ WizardKept
    /\ UNCHANGED vars

\* launchJupyter, from the returned configuration to window.createTerminal
LaunchCreatesTerminal(pid) ==
    /\ phase = "done" /\ result.kind = "config"
    /\ SpawnTerminal(options.type, result.port, result.token,
                     result.jupyterExtensionWorkingDirectory, pid)
    /\ phase' = "warmup"
    /\ WizardKept

\* launchJupyter returns the server and its caller registers it or not
LaunchReturnsServer(server, ok) ==
    /\ phase = "warmup"
    /\ server \in launching
    /\ launching' = launching \ {server}
    /\ IF Registers
       THEN AddJupyterServer(server, ok)
       ELSE /\ last' = NoEvent
            /\ UNCHANGED <<servers, memento, handles>>
    /\ phase' = "returned"
    /\ WizardKept
    /\ UNCHANGED <<revision, terminals, nextTid, closing, restores, apiMapping>>

\* ------------------------------------------ launchJupyter, step by step
\* getPortPromise({ host: "127.0.0.1", port: 8888 })
BasePort == 8888
NoPort == 0
Ports == BasePort..(BasePort + MaxTerminals)
\* portfinder: the first port from the base port up that nothing is bound to
GetPort(bound) ==
    CHOOSE p \in Ports :
        p \notin bound /\ \A q \in BasePort..(p - 1) : q \in bound
\* the callers of launchJupyter
Entries == {"command", "provider"}
\* what resolveEnvironment answers: environment.type, or no environment
Environments == {"VirtualEnvironment", "Conda", "undefined"}
\* the token and the type of the launches this part of the model makes
LaunchToken == "t1"

\* no launchJupyter call has been made
LaunchIdle ==
    /\ pc = "idle"
    /\ entry = "command"
    /\ pythonExt = TRUE
    /\ cancelled = FALSE
    /\ launchPort = NoPort
    /\ listening = {}
    /\ probes = 0
    /\ logged = 0
    /\ shown = 0
    /\ raised = FALSE
    /\ failure = "none"
    /\ outcome = "none"

\* the launch record of the call in progress
Launched == CHOOSE s \in launching : s.tid = nextTid - 1

\* "[Error]" lines the entry point's catch block appends: startJupyterServer
\* of the collection and serverProvider revisions calls appendLine
CatchLogs == IF entry = "provider" /\ revision # "uriProvider" THEN 1 ELSE 0
\* the other entry points hand the error to their logAndDisplayError, which
\* throws "Function not implemented."
CatchRaises == ~(entry = "provider" /\ revision # "uriProvider")
\* the same entry points throw CancellationError when no server comes back,
\* and catch and log it
NothingLogs == CatchLogs

\* launchJupyter rejects and the entry point handles the error
Rejects(why) ==
    /\ pc' = "done"
    /\ outcome' = "rejected"
    /\ failure' = why
    /\ logged' = logged + CatchLogs
    /\ raised' = CatchRaises

\* launchJupyter returns undefined and the entry point goes on
ReturnsNothing(why) ==
    /\ pc' = "done"
    /\ outcome' = "undefined"
    /\ failure' = why
    /\ logged' = logged + NothingLogs
    /\ raised' = FALSE

\* an entry point calls launchJupyter; the wizard, if shown, was accepted
LaunchJupyter(e, ext) ==
    /\ pc \in {"idle", "done"}
    /\ nextTid <= MaxTerminals
    /\ pc' = "probing"
    /\ entry' = e
    /\ pythonExt' = ext
    /\ cancelled' = FALSE
    /\ launchPort' = NoPort
    /\ probes' = 0
    /\ logged' = 0
    /\ shown' = 0
    /\ raised' = FALSE
    /\ failure' = "none"
    /\ outcome' = "none"
    /\ UNCHANGED <<listening, vars, wizardVars>>

\* the holder of the cancellation token requests cancellation
RequestCancellation ==
    /\ pc \in {"probing", "resolving", "warmup", "pid"}
    /\ ~cancelled
    /\ cancelled' = TRUE
    /\ UNCHANGED <<pc, entry, pythonExt, launchPort, listening, probes, logged,
                   shown, raised, failure, outcome, vars, wizardVars>>

\* getPortPromise settles; getLaunchArgs checks the token and returns;
\* the withProgress callback runs to `await resolveEnvironment(...)`
ProbePort(ok) ==
    /\ pc = "probing"
    /\ probes' = probes + 1
    /\ IF ~ok
       THEN Rejects("port probe") /\ launchPort' = launchPort
       ELSE /\ launchPort' = GetPort(listening)
            /\ IF cancelled THEN ReturnsNothing("none")
               ELSE IF ~pythonExt THEN Rejects("Python extension not found")
               ELSE /\ pc' = "resolving"
                    /\ UNCHANGED <<logged, raised, failure, outcome>>
    /\ UNCHANGED <<entry, pythonExt, cancelled, listening, shown, vars,
                   wizardVars>>

\* a callback that creates the terminal before it looks at the environment
ResolveEnvironmentSpawnsFirst(env, pid) ==
    /\ pc = "resolving"
    /\ SpawnTerminal("Jupyter Notebook", launchPort, LaunchToken, NoDir, pid)
    /\ IF cancelled THEN ReturnsNothing("none")
       ELSE IF env # "VirtualEnvironment"
       THEN Rejects("Python environment not found")
       ELSE /\ pc' = "warmup"
            /\ UNCHANGED <<logged, raised, failure, outcome>>
    /\ UNCHANGED <<entry, pythonExt, cancelled, launchPort, listening, probes,
                   shown, wizardVars>>

\* a callback without the checkpoint of lines 64-66
ResolveEnvironmentIgnoresToken(env, pid) ==
    /\ pc = "resolving"
    /\ IF env # "VirtualEnvironment"
       THEN Rejects("Python environment not found") /\ UNCHANGED vars
       ELSE /\ SpawnTerminal("Jupyter Notebook", launchPort, LaunchToken,
                             NoDir, pid)
            /\ pc' = "warmup"
            /\ UNCHANGED <<logged, raised, failure, outcome>>
    /\ UNCHANGED <<entry, pythonExt, cancelled, launchPort, listening, probes,
                   shown, wizardVars>>

\* resolveEnvironment settles; the callback checks the token and the
\* environment and runs to the warm-up delay after window.createTerminal
ResolveEnvironment(env, pid) ==
    /\ pc = "resolving"
    /\ IF cancelled THEN ReturnsNothing("none") /\ UNCHANGED vars
       ELSE IF env # "VirtualEnvironment"
       THEN Rejects("Python environment not found") /\ UNCHANGED vars
       ELSE /\ SpawnTerminal("Jupyter Notebook", launchPort, LaunchToken,
                             NoDir, pid)
            /\ pc' = "warmup"
            /\ UNCHANGED <<logged, raised, failure, outcome>>
    /\ UNCHANGED <<entry, pythonExt, cancelled, launchPort, listening, probes,
                   shown, wizardVars>>

\* setTimeout(resolve, 5_000) fires
WarmUpElapses ==
    /\ pc = "warmup"
    /\ pc' = "pid"
    /\ UNCHANGED <<entry, pythonExt, cancelled, launchPort, listening, probes,
                   logged, shown, raised, failure, outcome, vars, wizardVars>>

\* terminal.processId settled with a process id: launchJupyter returns the
\* server; the provider adds it, the command if `register` was selected
ReturnServer(ok, register) ==
    /\ pc = "pid"
    /\ Launched.pid # NoPid
    /\ pc' = "done"
    /\ outcome' = "server"
    /\ launching' = launching \ {Launched}
    /\ IF entry = "command" /\ ~register
       THEN last' = NoEvent /\ UNCHANGED <<servers, memento, handles>>
       ELSE AddJupyterServer(Launched, ok)
    /\ UNCHANGED <<entry, pythonExt, cancelled, launchPort, listening, probes,
                   logged, shown, raised, failure, revision, terminals,
                   nextTid,
                   closing, restores, apiMapping, wizardVars>>

\* terminal.processId settled with none: "Failed to get PID" is thrown and
\* caught, and logAndDisplayError(ex) runs; reported: it does not throw
PidUnavailable(reported) ==
    /\ pc = "pid"
    /\ Launched.pid = NoPid
    /\ IF reported
       THEN /\ pc' = "catch"
            /\ shown' = shown + 1
            /\ logged' = logged + 1
            /\ UNCHANGED <<raised, failure, outcome, launching>>
       ELSE /\ Rejects("Failed to get PID")
            /\ launching' = launching \ {Launched}
            /\ UNCHANGED shown
    /\ last' = NoEvent
    /\ UNCHANGED <<entry, pythonExt, cancelled, launchPort, listening, probes,
                   revision, terminals, nextTid, closing, restores, servers,
                   memento, handles, apiMapping, wizardVars>>

\* terminal.dispose() of the catch block, and launchJupyter returns
DisposeTerminal ==
    /\ pc = "catch"
    /\ closing' = closing \cup Disposed(Launched.tid)
    /\ launching' = launching \ {Launched}
    /\ ReturnsNothing("Failed to get PID")
    /\ last' = NoEvent
    /\ UNCHANGED <<entry, pythonExt, cancelled, launchPort, listening, probes,
                   shown, revision, terminals, nextTid, restores, servers,
                   memento, handles, apiMapping, wizardVars>>

\* the server process of a launcher terminal binds the port it was given
ServerBinds(t) ==
    /\ t \in terminals /\ IsLauncherName(t.name)
    /\ t \notin closing
    /\ t.name[2] \notin listening
    /\ listening' = listening \cup {t.name[2]}
    /\ UNCHANGED <<pc, entry, pythonExt, cancelled, launchPort, probes, logged,
                   shown, raised, failure, outcome, vars, wizardVars>>

\* ------------------------------------------------------------ specification
InitIn(revisions) ==
    /\ revision \in revisions
    /\ terminals = {}
    /\ nextTid = 1
    /\ launching = {}
    /\ closing = {}
    /\ restores = {}
    /\ servers = EmptyMap
    /\ memento = <<>>
    /\ handles = [p \in Pids |-> 0]
    /\ apiMapping = {}
    /\ last = NoEvent
    /\ WizardIdle
    /\ LaunchIdle

\* what every revision does: launches, terminal closes, reconciliation, restart
NextCollectionApi ==
    \/ \E in \in LaunchInputs, pid \in Pids :
          CreateTerminal(in.type, in.port, in.token, in.mapped, pid)
    \/ \E pid \in Pids : OpenOtherTerminal(pid)
    \/ \E server \in launching, ok \in BOOLEAN : StartJupyterServer(server, ok)
    \/ \E server \in launching : StartWithoutRegistering(server)
    \/ \E t \in terminals : ShutdownJupyterServer(t)
    \/ RestoreJupyterServers
    \/ StartRestore
    \/ \E run \in restores : FinishRestore(run)
    \/ Activate

Next ==
    \/ NextCollectionApi
    \/ \E h \in Pids : RemoveHandle(h)

\* the consumer surface: the list queries and the serverProvider command
NextSurface ==
    \/ Next
    \/ GetHandles
    \/ GetJupyterServers
    \/ \E server \in launching, ok \in BOOLEAN :
          NotebookLauncherCommand(server, ok)

Init == InitIn(Revisions)
InitCollectionApi == InitIn({"collection", "serverProvider"})

\* the registry, the persisted list and the terminals, in all three revisions
Spec == Init /\ [][Next]_vars
\* the same with the consumer surface
SpecSurface == Init /\ [][NextSurface]_vars
\* the two revisions built on JupyterServerCollection
SpecCollectionApi == InitCollectionApi /\ [][NextCollectionApi]_vars

Options ==
    [type : JupyterType, customize : BOOLEAN, canGoBack : BOOLEAN,
     displayOptionToIntegrateWithJupyter : BOOLEAN]
InitWizard ==
    /\ revision = "uriProvider"
    /\ terminals = {}
    /\ nextTid = 1
    /\ launching = {}
    /\ closing = {}
    /\ restores = {}
    /\ servers = EmptyMap
    /\ memento = <<>>
    /\ handles = [p \in Pids |-> 0]
    /\ apiMapping = {}
    /\ last = NoEvent
    /\ LaunchIdle
    /\ \E opts \in Options : GetLaunchArgs(opts)
NextWizard ==
    \/ \E item \in Items(options) : ToggleItem(item)
    \/ ReportAssignedSelection
    \/ KeepAssignedSelectionSilent
    \/ \E selectedPassword \in PasswordInputs : PasswordCaptured(selectedPassword)
    \/ \E jpToken \in TokenInputs : TokenCaptured(jpToken)
    \/ \E capturedCwd \in FolderInputs : CwdCaptured(capturedCwd)
    \/ \E mappedFolder \in FolderInputs : MappedFolderCaptured(mappedFolder)
    \/ Accept
    \/ Back
    \/ Dismiss
    \/ LaunchWithDefaults
\* one call of getLaunchArgs, from the options to its return
SpecWizard == InitWizard /\ [][NextWizard]_wizardVars

\* the wizard followed by the launch it configures
NextLaunch ==
    \/ NextWizard
    \/ LaunchReturnsNothing
    \/ \E pid \in Pids : LaunchCreatesTerminal(pid)
    \/ \E server \in launching, ok \in BOOLEAN : LaunchReturnsServer(server, ok)
\* one call of launchJupyter by the command or a provider item
SpecLaunch == InitWizard /\ [][NextLaunch]_<<vars, wizardVars>>

\* launches one after the other, in every revision, by either entry point
InitLaunchJupyter ==
    /\ revision \in Revisions
    /\ terminals = {}
    /\ nextTid = 1
    /\ launching = {}
    /\ closing = {}
    /\ restores = {}
    /\ servers = EmptyMap
    /\ memento = <<>>
    /\ handles = [p \in 1..MaxTerminals |-> 0]
    /\ apiMapping = {}
    /\ last = NoEvent
    /\ WizardIdle
    /\ LaunchIdle
NextLaunchJupyter ==
    \/ \E e \in Entries, ext \in BOOLEAN : LaunchJupyter(e, ext)
    \/ RequestCancellation
    \/ \E ok \in BOOLEAN : ProbePort(ok)
    \/ \E env \in Environments, pid \in {nextTid, NoPid} :
          ResolveEnvironment(env, pid)
    \/ WarmUpElapses
    \/ \E ok \in BOOLEAN, register \in BOOLEAN : ReturnServer(ok, register)
    \/ \E reported \in BOOLEAN : PidUnavailable(reported)
    \/ DisposeTerminal
    \/ \E t \in terminals : ServerBinds(t)
SpecLaunchJupyter ==
    InitLaunchJupyter /\ [][NextLaunchJupyter]_<<vars, launchVars>>

\* --------------------------- restoreJupyterServers over any persisted list
\* what a read of a missing property gives where the model has a tuple
NoUrl == <<>>
NoLabel == <<>>
\* a null element of the list: every read through `?.` is undefined
NullEntry ==
    [pid |-> NoPid, baseUrl |-> NoUrl, token |-> "", label |-> NoLabel,
     mapped |-> NoDir]
\* the record addJupyterServer persists for a session with this process id
StoredFor(pid) ==
    ServerUri([pid |-> pid, port |-> 8888, token |-> "t1",
               type |-> "Jupyter Notebook", mapped |-> NoDir])
\* the elements a persisted list can hold for this process id
EntriesFor(pid) ==
    {StoredFor(pid),
     [StoredFor(pid) EXCEPT !.baseUrl = NoUrl],
     [StoredFor(pid) EXCEPT !.label = NoLabel]}
WellFormed(elem) ==
    elem.pid # NoPid /\ elem.baseUrl # NoUrl /\ elem.label # NoLabel

\* `new URL(server.serverUri.baseUrl.toString())` and
\* `server.serverUri.label.startsWith(...)` of the serverProvider revision
\* throw a TypeError on a missing property
RestoreThrows(acc, elem, byPid) ==
    /\ revision = "serverProvider"
    /\ elem.pid \notin DOMAIN acc.servers
    /\ elem.pid \in DOMAIN byPid
    /\ (elem.baseUrl = NoUrl \/ elem.label = NoLabel)

\* one iteration of the forEach: `if (!server?.serverUri?.pid) return;`, then
\* the rest of the callback; an exception ends the forEach
RestoreEntry(acc, elem, byPid) ==
    IF acc.raised \/ elem.pid = NoPid THEN acc
    ELSE IF RestoreThrows(acc, elem, byPid) THEN [acc EXCEPT !.raised = TRUE]
    ELSE LET done == RestoreOne([servers |-> acc.servers,
                                 handles |-> acc.handles], elem, byPid)
         IN  [servers |-> done.servers, handles |-> done.handles,
              raised |-> FALSE]

RECURSIVE RestoreEntriesFrom(_, _, _, _)
RestoreEntriesFrom(i, list, byPid, acc) ==
    IF i > Len(list) THEN acc
    ELSE RestoreEntriesFrom(i + 1, list, byPid,
                            RestoreEntry(acc, list[i], byPid))

\* restoreJupyterServers from call to return or to the exception
RestorePersistedList ==
    LET acc == RestoreEntriesFrom(1, memento, TerminalsByPid(Snapshot),
                                  [servers |-> servers, handles |-> handles,
                                   raised |-> FALSE])
    IN  /\ servers' = acc.servers
        /\ handles' = acc.handles
        /\ last' = [NoEvent EXCEPT !.op = "restore", !.raised = acc.raised,
                       !.fired = IF acc.raised THEN 0 ELSE RestoreFires]
        /\ UNCHANGED <<launchVars, wizardVars, revision, terminals, nextTid,
                       launching, closing, restores, memento, apiMapping>>

\* the persisted lists of the model: up to MaxList elements
MaxList == 2
PersistedLists ==
    UNION {[1..n -> {NullEntry, [NullEntry EXCEPT !.token = "t1"]}
                      \cup UNION {EntriesFor(pid) : pid \in 1..MaxTerminals}] :
           n \in 0..MaxList}

\* start-up: every launcher terminal of the last session is live, the
\* registry is empty and the persisted list is whatever was stored
InitRestore ==
    /\ revision \in Revisions
    /\ terminals = {[tid |-> pid, pid |-> pid,
                     name |-> TerminalName("Jupyter Notebook", 8888)] :
                    pid \in 1..MaxTerminals}
    /\ nextTid = MaxTerminals + 1
    /\ launching = {}
    /\ closing = {}
    /\ restores = {}
    /\ servers = EmptyMap
    /\ memento \in PersistedLists
    /\ handles = [p \in 1..MaxTerminals |-> 0]
    /\ apiMapping = {}
    /\ last = NoEvent
    /\ WizardIdle
    /\ LaunchIdle
NextRestore == RestorePersistedList
SpecRestore == InitRestore /\ [][NextRestore]_vars

\* the values the locals of getLaunchArgs can hold where the build starts
Tokens ==
    {tok \in [value : {"", " ", "secret"}, isRandom : BOOLEAN,
              isEmpty : BOOLEAN] : ~(tok.isRandom /\ tok.isEmpty)}
InitBuild ==
    /\ revision = "uriProvider"
    /\ terminals = {}
    /\ nextTid = 1
    /\ launching = {}
    /\ closing = {}
    /\ restores = {}
    /\ servers = EmptyMap
    /\ memento = <<>>
    /\ handles = [p \in Pids |-> 0]
    /\ apiMapping = {}
    /\ last = NoEvent
    /\ LaunchIdle
    /\ options \in {opts \in Options : ~opts.customize}
    /\ phase = "build"
    /\ prompt = "none"
    /\ selectedItems = {}
    /\ previousSelections = {}
    /\ ignoreNext = FALSE
    /\ echo = FALSE
    /\ token \in Tokens
    /\ password \in {"", " ", "pw"}
    /\ customCwd \in FolderInputs
    /\ useCustomWorkingDirectory \in BOOLEAN
    /\ jupyterExtensionWorkingDirectory \in {cwd, "/custom"}
    /\ proceed = "pending"
    /\ result = NoResult
NextBuild ==
    \/ LaunchWithDefaults
    \/ LaunchFails
    \/ \E pid \in Pids : LaunchCreatesTerminal(pid)
    \/ \E server \in launching, ok \in BOOLEAN : LaunchReturnsServer(server, ok)
\* the build of the launch parameters on every value of the locals
SpecBuild == InitBuild /\ [][NextBuild]_<<vars, wizardVars>>

\* ------------------------------------------------------------------ claims
\* the run a FinishRestore step resumes
FinishedRun == CHOOSE run \in restores : run \notin restores'
\* the snapshot a restore step works on
RunOfStep == IF restores' = restores THEN Snapshot ELSE FinishedRun

\* C1: addJupyterServer with a process id that is already a key of the
\* registry changes neither the registry, the persisted list nor the handles,
\* logs one warning, fires no event and raises nothing.
C1_DuplicateAddIsNoOp ==
    [][(last'.op = "add" /\ last'.hit) =>
        /\ servers' = servers
        /\ memento' = memento
        /\ handles' = handles
        /\ last'.warned = 1
        /\ last'.fired = 0
        /\ ~last'.raised]_vars
\* a duplicate add has happened, with a persisted list that is not empty
C1_Witness ==
    /\ last.op = "add" /\ last.hit
    /\ last.pid \in DOMAIN servers
    /\ Len(memento) > 0

\* C2 (as claimed): restoreJupyterServers adds no entry for a persisted record
\* whose process id is not that of a launcher terminal of its snapshot, and
\* leaves an existing entry with that process id as it was.
C2_AbsentRecordUntouched ==
    [][last'.op = "restore" =>
        \A i \in 1..Len(memento) :
            memento[i].pid \notin DOMAIN TerminalsByPid(RunOfStep) =>
                /\ memento[i].pid \in DOMAIN servers' <=>
                       memento[i].pid \in DOMAIN servers
                /\ memento[i].pid \in DOMAIN servers =>
                       servers'[memento[i].pid] = servers[memento[i].pid]]_vars

\* C3 (as claimed): a restoreJupyterServers run never replaces or rebinds an
\* entry whose process id is already in the registry.
C3_RestoreKeepsEntries ==
    [][last'.op = "restore" =>
        \A p \in DOMAIN servers :
            p \in DOMAIN servers' /\ servers'[p] = servers[p]]_vars

\* C4 (as claimed): after a restart, every persisted record whose process id
\* is that of a live launcher terminal has a registry entry with the values
\* persisted for it.
C4_RestartRestoresPersisted ==
    [][last'.op = "activate" =>
        \A i \in 1..Len(memento) :
            memento[i].pid \in DOMAIN TerminalsByPid(Snapshot) =>
                /\ memento[i].pid \in DOMAIN servers'
                /\ servers'[memento[i].pid].rec = memento[i]]_vars

\* C5: there is never more than one undisposed createServer handle per
\* process id (the registry, a Map, holds one entry per key).
C5_OneHandlePerPid == \A p \in Pids : handles[p] <= 1
\* a reconciliation has run over the persisted record of a session that
\* addJupyterServer registered and whose terminal is live
C5_Witness ==
    /\ revision = "collection"
    /\ last.op = "restore"
    /\ \E p \in DOMAIN servers :
          /\ servers[p].term \in {t.tid : t \in terminals}
          /\ handles[p] = 1
          /\ \E i \in 1..Len(memento) : memento[i] = servers[p].rec
          /\ \E t \in Snapshot : t.pid = p /\ t.tid = servers[p].term

\* C6 (as claimed): a removal fires the change event once when the session
\* was present and not at all when it was absent.
C6_RemovalFiresOnce ==
    last.op \in {"shutdown", "removeHandle"} =>
        last.fired = IF last.hit THEN 1 ELSE 0

\* C7 (as claimed): the ids a list query returns are the keys of the registry.
C7_ListIsRegistry == last.op = "list" => last.listed = DOMAIN servers

C9_FailedStoreKeepsSession ==
    [][(last'.op = "add" /\ ~last'.hit /\ ~last'.wrote) =>
        /\ last'.pid \in DOMAIN servers'
        /\ terminals' = terminals
        /\ closing' = closing
        /\ ~last'.raised]_vars
\* an add whose write failed has happened
C9_Witness ==
    /\ revision = "collection"
    /\ last.op = "add" /\ ~last.hit /\ ~last.wrote
    /\ last.pid \in DOMAIN servers
    /\ \A i \in 1..Len(memento) : memento[i] # servers[last.pid].rec

\* the token items the list shows checked for a token choice
TokenItemsOf(mode) ==
    IF mode = "Empty" THEN {emptyToken}
    ELSE IF mode = "Specific" THEN {specificToken} ELSE {}

\* C10 (as claimed): when the token sub-prompt opened by selecting 'Specific
\* Token' is cancelled while the choice was Random or Empty, the token mode
\* the launch is built with and the token items shown checked are those of
\* the choice that was active before the selection.
C10_CancelRestoresTokenChoice ==
    [][(/\ phase = "prompt" /\ prompt = specificToken
        /\ TokenMode(token) \in {"Random", "Empty"}
        /\ phase' = "list"
        /\ specificToken \notin previousSelections') =>
            /\ TokenMode(token') = TokenMode(token)
            /\ selectedItems' \cap {emptyToken, specificToken} =
                   TokenItemsOf(TokenMode(token))]_wizardVars

\* the value that follows a flag in an argument vector
FlagValue(args, flag) ==
    args[(CHOOSE i \in 1..Len(args) : args[i] = flag) + 1]
\* getLaunchArgs has returned a configuration built by the wizard
Built == phase = "done" /\ options.customize /\ result.kind = "config"

\* C11 (as claimed): when the list is accepted with neither 'Empty Token' nor
\* 'Specific Token' selected, the token group has resolved to Random and the
\* launch is built with the clock-derived token.
C11_NoTokenItemMeansRandom ==
    (Built /\ selectedItems \cap {emptyToken, specificToken} = {}) =>
        /\ TokenMode(token) = "Random"
        /\ result.token = Clock
        /\ FlagValue(result.shellArgs, "--NotebookApp.token") = Clock

\* getLaunchArgs has returned a configuration, wizard or not
Returned == phase = "done" /\ result.kind = "config"

\* C12: Random and Empty are never both set, and in every configuration
\* getLaunchArgs builds the two token flags carry one value, the returned
\* token: the clock string for Random, the empty string for Empty, a captured
\* non-blank trimmed value for Specific.
C12_OneTokenMode ==
    /\ ~(token.isRandom /\ token.isEmpty)
    /\ Returned =>
        /\ FlagValue(result.shellArgs, "--NotebookApp.token") = result.token
        /\ FlagValue(result.shellArgs, "--ServerApp.token") = result.token
        /\ TokenMode(token) = "Random" => result.token = Clock
        /\ TokenMode(token) = "Empty" => result.token = ""
        /\ TokenMode(token) = "Specific" =>
              /\ result.token = token.value
              /\ result.token # "" /\ Trim(result.token) = result.token
              /\ \E jpToken \in TokenInputs \ {Cancelled} :
                    result.token = Trim(jpToken)
\* a configuration has been built with a captured token
C12_Witness ==
    /\ Built /\ TokenMode(token) = "Specific"
    /\ result.token = "secret"
    /\ specificToken \in selectedItems

C14_AcceptYieldsConfiguration ==
    (phase = "done" /\ proceed = "true") => result.kind = "config"

\* launchJupyter with the scheduling the extension host gives it: a step
\* that can be taken is taken sooner or later
SpecLaunchFair ==
    SpecLaunch /\ WF_<<vars, wizardVars>>(NextLaunch)

\* C15 (as claimed): once the user has dismissed the list without Accept and
\* without Back, getLaunchArgs and launchJupyter eventually return.
C15_DismissEventuallyReturns ==
    (phase = "hidden") ~> (phase = "returned")

\* C16: once the wizard has ended with Back, no step changes the terminals,
\* the launches in flight, the registry or the persisted list; no port is
\* probed and no arguments are built; launchJupyter does nothing but return
\* no server.
C16_BackChangesNothing ==
    [][(proceed' = "false") =>
          /\ UNCHANGED <<vars, launchVars>>
          /\ result' = UndefinedResult /\ result'.port = ""
          /\ phase' \in {"done", "returned"}]_<<vars, wizardVars>>

C16_Witness ==
    /\ phase = "returned" /\ proceed = "false"
    /\ result = UndefinedResult
    /\ terminals = {} /\ servers = EmptyMap /\ memento = <<>>

\* C17 (as claimed): when 'Custom Working Directory' is not selected at
\* Accept, the working-directory flag of the built configuration is the
\* default directory, whatever folder was confirmed before.
C17_DeselectedCwdMeansDefault ==
    (Built /\ cwdPrompt \notin selectedItems) =>
        FlagValue(result.shellArgs, "--notebook-dir") = cwd

\* C18 (as claimed): the built configuration carries a mapping exactly when
\* 'Map local dir to remote notebook dir' is selected at Accept and its
\* folder picker was confirmed (only then does the mapping variable differ
\* from the default directory), and the mapping is the confirmed folder.
C18_MappingIffConfirmed ==
    Built =>
        /\ result.jupyterExtensionWorkingDirectory # NoDir
              <=> /\ localPathMapping \in selectedItems
                  /\ jupyterExtensionWorkingDirectory # cwd
        /\ result.jupyterExtensionWorkingDirectory # NoDir
              => result.jupyterExtensionWorkingDirectory = "/custom"

\* the values of the two password flags of an argument vector
PasswordFlags(args) ==
    <<FlagValue(args, "--NotebookApp.password"),
      FlagValue(args, "--ServerApp.password")>>

\* C19 (as claimed): the password flags of the built argument vector carry a
\* hash of the password exactly when 'Password' is selected at Accept and its
\* sub-prompt was confirmed with a non-empty value (only then is the password
\* variable non-empty); otherwise both flags carry the empty string.
C19_PasswordFlagsIffConfirmed ==
    Built =>
        IF passwordEnabled \in selectedItems /\ password # ""
        THEN \E salts \in Salts \X Salts :
                PasswordFlags(result.shellArgs) =
                    <<generateHashedPassword(password, salts[1]),
                      generateHashedPassword(password, salts[2])>>
        ELSE PasswordFlags(result.shellArgs) = <<"", "">>

\* C20: 'Register with Jupyter Extension' is on the list only when the caller
\* sets displayOptionToIntegrateWithJupyter; when it is on the list and not
\* selected at Accept, the registry and the persisted list stay without the
\* launched server; when it is not on the list, a launch that returns a
\* server leaves that server in the registry.
C20_RegisterOption ==
    /\ registerWithJupyterExtensionPrompt \in Items(options) <=> FromCommand
    /\ registerWithJupyterExtensionPrompt \in selectedItems => FromCommand
    /\ ( /\ options.customize /\ FromCommand /\ proceed = "true"
         /\ registerWithJupyterExtensionPrompt \notin selectedItems )
          => servers = EmptyMap /\ memento = <<>>
    /\ (~FromCommand /\ phase = "returned" /\ result.kind = "config")
          => \E pid \in DOMAIN servers :
                /\ servers[pid].rec.token = result.token
                /\ servers[pid].rec.baseUrl = BaseUrl(result.port)
                /\ \E t \in terminals : t.pid = pid /\ t.tid = servers[pid].term

C20_Witness ==
    /\ options.customize /\ FromCommand /\ proceed = "true"
    /\ registerWithJupyterExtensionPrompt \notin selectedItems
    /\ phase = "returned" /\ result.kind = "config"
    /\ terminals # {} /\ servers = EmptyMap

\* what the caller chose: open-in-browser and CORS (the defaults of lines
\* 166-168 when the wizard is not shown)
BrowserChosen == options.customize /\ openInBrowser \in selectedItems
CorsChosen == options.customize => corsEnabled \in selectedItems
\* where an argument vector holds a flag
Positions(args, flag) == {i \in 1..Len(args) : args[i] = flag}

\* C21: the built argument vector is '-m jupyter <kind>', then '--no-browser'
\* iff open-in-browser is not chosen, then the two allow-origin flags with
\* '*' iff CORS is enabled, then the two token flags, the two password flags,
\* the working-directory flag, and '--port <port>' as the last two elements.
C21_ArgumentOrder ==
    Returned =>
        LET args == result.shellArgs
            a == IF BrowserChosen THEN 3 ELSE 4
            b == IF CorsChosen THEN a + 4 ELSE a
        IN  /\ Len(args) = b + 12
            /\ args[1] = "-m" /\ args[2] = "jupyter"
            /\ args[3] = (IF options.type = "Jupyter Lab"
                          THEN "lab" ELSE "notebook")
            /\ Positions(args, "--no-browser") =
                   (IF BrowserChosen THEN {} ELSE {4})
            /\ Positions(args, "--NotebookApp.allow_origin") =
                   (IF CorsChosen THEN {a + 1} ELSE {})
            /\ Positions(args, "--ServerApp.allow_origin") =
                   (IF CorsChosen THEN {a + 3} ELSE {})
            /\ Positions(args, "*") =
                   (IF CorsChosen THEN {a + 2, a + 4} ELSE {})
            /\ Positions(args, "--NotebookApp.token") = {b + 1}
            /\ Positions(args, "--ServerApp.token") = {b + 3}
            /\ Positions(args, "--NotebookApp.password") = {b + 5}
            /\ Positions(args, "--ServerApp.password") = {b + 7}
            /\ Positions(args, "--notebook-dir") = {b + 9}
            /\ Positions(args, "--port") = {b + 11}
            /\ args[b + 12] = result.port

C21_Witness ==
    /\ Built /\ openInBrowser \in selectedItems
    /\ corsEnabled \notin selectedItems
    /\ Len(result.shellArgs) = 15
    /\ result.shellArgs[14] = "--port"

\* C22 (as claimed): launches made one after the other, each after the one
\* before has returned its server and while that server's terminal is open,
\* obtain distinct ports: no two sessions of the registry share a base URL.
C22_SequentialLaunchesDistinctPorts ==
    \A p, q \in DOMAIN servers :
        p # q => servers[p].rec.baseUrl # servers[q].rec.baseUrl

\* C23: a launch that fails before the terminal is created (the port probe
\* errors, the Python extension is missing, or no usable interpreter is
\* resolved) creates no terminal, adds no registry entry, appends nothing to
\* the persisted list and ends there: it has probed at most once and takes
\* no further step.
C23_FailureBeforeSpawn ==
    [][(pc \in {"probing", "resolving"} /\ outcome' = "rejected") =>
          /\ terminals' = terminals /\ nextTid' = nextTid
          /\ launching' = launching
          /\ servers' = servers /\ memento' = memento
          /\ probes' = 1
          /\ pc' = "done"]_<<vars, launchVars>>

C23_Witness ==
    /\ pc = "done" /\ outcome = "rejected"
    /\ probes = 1 /\ launchPort # NoPort
    /\ terminals = {} /\ servers = EmptyMap /\ memento = <<>>

\* C24 (as claimed): when the terminal's process id is not observable, the
\* terminal is already disposed once the error has been shown or logged, it
\* is disposed even if the reporting fails, and no session is returned or
\* registered.
C24_DisposedBeforeReport ==
    \A t \in terminals :
        (t.pid = NoPid /\ t.tid = nextTid - 1 /\ pc \in {"catch", "done"}) =>
            /\ t \in closing
            /\ outcome # "server"
            /\ \A p \in DOMAIN servers : servers[p].term # t.tid

\* C25 (as claimed): for every failed launch, whatever the failure and the
\* entry point, the error is logged exactly once and shown exactly once, and
\* the entry point raises no further error.
C25_ErrorReportedOnce ==
    (pc = "done" /\ failure # "none") =>
        logged = 1 /\ shown = 1 /\ ~raised

\* C26 (as claimed): whatever malformed entries the persisted list holds,
\* restoreJupyterServers raises no error, registers no malformed entry and
\* reactivates every well-formed record whose process is live.
C26_MalformedEntriesSkipped ==
    last.op = "restore" =>
        /\ ~last.raised
        /\ \A p \in DOMAIN servers : WellFormed(servers[p].rec)
        /\ \A i \in 1..Len(memento) :
              (WellFormed(memento[i]) /\ memento[i].pid \in LivePids)
                  => memento[i].pid \in DOMAIN servers

\* C27 (as claimed): a restoreJupyterServers run that finishes after a
\* terminal was closed and shutdownJupyterServer handled the close adds no
\* entry for the closed terminal's process id: every entry a reconciliation
\* adds belongs to a terminal that is open.
C27_RestoreAfterCloseAddsNothing ==
    [][last'.op = "restore" =>
          \A p \in (DOMAIN servers') \ (DOMAIN servers) :
              \E t \in terminals : t.pid = p /\ t.tid = servers'[p].term]_vars

\* the options whose selection opens a sub-prompt
SubPromptItems == {passwordEnabled, specificToken, cwdPrompt, localPathMapping}

\* C28 (as claimed): whenever the list waits for the user and the user newly
\* selects Password, Specific Token, Custom Working Directory or Map local
\* dir, the sub-prompt of that option opens; and when the host reports the
\* selection the wizard assigned itself, no sub-prompt opens.
C28_SubPromptPerUserSelection ==
    [][/\ \A item \in SubPromptItems \cap Items(options) :
             (/\ phase = "list" /\ ~echo
              /\ item \notin selectedItems
              /\ item \in selectedItems')
                 => phase' = "prompt" /\ prompt' = item
       /\ (phase = "list" /\ echo) => phase' # "prompt"]_wizardVars

\* C29: a launch whose token is cancelled while it probes the port or
\* resolves the environment ends at its next step without a server and
\* without a new terminal; a launch whose token is cancelled after the
\* terminal was created, and whose terminal reports a process id, still
\* returns the server and disposes nothing.
C29_CancellationCheckpoints ==
    [][/\ (cancelled /\ pc \in {"probing", "resolving"} /\ pc' # pc) =>
             /\ pc' = "done" /\ outcome' # "server"
             /\ terminals' = terminals /\ nextTid' = nextTid
             /\ launching' = launching
       /\ (cancelled /\ pc = "pid" /\ Launched.pid # NoPid /\ pc' # pc) =>
             /\ pc' = "done" /\ outcome' = "server"
             /\ closing' = closing /\ terminals' = terminals
      ]_<<vars, launchVars>>
\* a cancelled launch returned its server and its terminal stays open
C29_Witness ==
    /\ cancelled /\ pc = "done" /\ outcome = "server"
    /\ \E t \in terminals \ closing : t.tid = nextTid - 1

\* the records of the persisted list that carry this process id
RecordsOf(list, pid) == {i \in 1..Len(list) : list[i].pid = pid}

\* C30 (as claimed): while a launch is in its warm-up delay (its terminal is
\* created and launchJupyter has not returned), no step adds a registry
\* entry for its terminal and no step adds a record with its process id to
\* the persisted list (no other launch in progress has the same process id).
C30_NothingRegisteredBeforeWarmUp ==
    [][\A s \in launching \cap launching' :
          (\A other \in launching : other.pid = s.pid => other = s) =>
              /\ (s.pid \in DOMAIN servers' /\ servers'[s.pid].term = s.tid)
                    => (s.pid \in DOMAIN servers
                           /\ servers[s.pid].term = s.tid)
              /\ Cardinality(RecordsOf(memento', s.pid))
                    <= Cardinality(RecordsOf(memento, s.pid))]_vars

\* the entry for this process id disposes the open terminal that runs it
WorkingDisposal(p, registry, open) ==
    \E t \in open : t.pid = p /\ registry[p].term = t.tid

\* C31 (as claimed): an entry that addJupyterServer adds for a launch whose
\* terminal is open holds a disposal that terminates that terminal, and a reconciliation leaves every
\* entry whose disposal terminates its open terminal with such a disposal:
\* it never replaces a working disposal by one that does nothing.
C31_DisposalTerminatesTerminal ==
    [][/\ (last'.op = "add" /\ ~last'.hit) =>
              \A s \in launching \ launching' :
                  (\E t \in terminals : t.tid = s.tid) =>
                      WorkingDisposal(s.pid, servers', terminals')
       /\ last'.op = "restore" =>
              \A p \in DOMAIN servers :
                  WorkingDisposal(p, servers, terminals) =>
                      /\ p \in DOMAIN servers'
                      /\ WorkingDisposal(p, servers', terminals')]_vars

\* the record pushed last among those carrying this process id
LastRecordOf(list, pid) ==
    list[CHOOSE i \in RecordsOf(list, pid) :
            \A j \in RecordsOf(list, pid) : j <= i]

\* C32 (as claimed): when a reconciliation or a restart creates the entry of
\* a live launcher terminal's process id, the entry carries the record that
\* was persisted last for that process id.
C32_MostRecentRecordWins ==
    [][last'.op \in {"restore", "activate"} =>
          \A p \in (DOMAIN servers') \cap LivePids :
              (/\ p \notin DOMAIN servers \/ last'.op = "activate"
               /\ RecordsOf(memento, p) # {})
                  => servers'[p].rec = LastRecordOf(memento, p)]_vars

\* C33 (as claimed): no write of the persisted list carries the plaintext
\* password the wizard captured.
C33_PasswordNeverPersisted ==
    (last.op = "add" /\ last.wrote) => last.secret = ""

\* C34 (as claimed): in the revisions that have a change event, an add that
\* registers a session fires exactly one, a reconciliation (on an event or
\* at start-up) that adds at least one entry fires exactly one, and a
\* reconciliation that adds none fires none.
C34_OneChangeEventPerAddition ==
    [][revision # "collection" =>
          /\ (last'.op = "add" /\ ~last'.hit) => last'.fired = 1
          /\ last'.op = "restore" =>
                last'.fired = IF (DOMAIN servers') \ (DOMAIN servers) # {}
                              THEN 1 ELSE 0
          /\ last'.op = "activate" =>
                last'.fired = IF DOMAIN servers' # {} THEN 1 ELSE 0]_vars

\* C35 (as claimed): in every configuration getLaunchArgs returns, the
\* directory after the working-directory flag of the argument vector is the
\* `cwd` of the launch parameters, which window.createTerminal is given.
C35_CwdMatchesNotebookDir ==
    Returned => FlagValue(result.shellArgs, "--notebook-dir") = result.cwd

\* C36 (as claimed): when a password is set, the two password flags of the
\* argument vector carry the same hash string.
C36_PasswordFlagsSameHash ==
    (Returned /\ Trim(result.password) # "") =>
        PasswordFlags(result.shellArgs)[1] = PasswordFlags(result.shellArgs)[2]

\* what getLaunchArgs builds from the initial values of its locals, which is
\* what it returns when customize is not set (no password: no salt is drawn)
DefaultLaunchArgs ==
    LaunchArgs(NoToken, "", FALSE, TRUE, TRUE, cwd, <<"a1", "a1">>)
\* the wizard was accepted with the selection it first showed and with the
\* locals it started from
AcceptedUnchanged ==
    /\ phase = "done" /\ options.customize /\ proceed = "true"
    /\ selectedItems = Items(options) \cap Picked(options)
    /\ token = NoToken /\ password = "" /\ customCwd = NoDir
    /\ ~useCustomWorkingDirectory
    /\ jupyterExtensionWorkingDirectory = cwd

\* C37 (as claimed): a wizard accepted without any change returns the
\* configuration that getLaunchArgs returns without the wizard.
C37_WizardUnchangedEqualsDefaults ==
    AcceptedUnchanged => result = DefaultLaunchArgs

====
